---- MODULE Spec2Model ----
(***************************************************************************)
(* Model of the parallel chunked-diff engine of transferdb                 *)
(* (src/pkg/diff/diff.go): the per-table executor startTableDiffCheck with *)
(* its drain and chunk workers, the reconciler reportCheckCRC32, the       *)
(* part/wait drive of StartTableDiff, the planner tasks of PreSplitChunk   *)
(* and the pre-flight steps of OracleDiffMySQLTable that lead to it; and   *)
(* of DDL.Write of the reverse module (src/unnamed/part_000).              *)
(***************************************************************************)
EXTENDS Integers, Sequences, FiniteSets, TLC

\* ---------------------------------------------------------------- bounds
MaxChunks == 2      \* chunk rows a table can have (ranges 1..MaxChunks)
MaxThreads == 2     \* cfg.DiffConfig.DiffThreads is drawn from 1..MaxThreads
BufferSize == 1     \* utils.BufferSize, the capacity of reportResCh
MaxFaults == 2      \* failures the environment injects in one run
MaxWrites == 1      \* upstream writes during one run (SpecSnapshot only)

TableOrder == <<"T1", "T2">>
Tables == {TableOrder[i] : i \in 1..Len(TableOrder)}
Ranges == 1..MaxChunks

\* A canonical row string is identified with the sequence of its
\* comma-separated pieces: strings.Split(t, ",") of a row is the row itself
\* and len(colValues) is its length.  RowC renders a value holding a comma.
RowA == <<"1", "a">>
RowB == <<"2", "b">>
RowC == <<"3", "c", "d">>
Rows == {RowA, RowB, RowC}
Columns == <<"c1", "c2">>
CrcVals == {0, 1}

NoErr == "nil"

VARIABLES
  diffThreads,       \* cfg.DiffConfig.DiffThreads
  cfg,               \* cfg.DiffConfig: EnableCheckpoint, OnlyCheckRows,
                     \* IgnoreStructCheck
  env,               \* what the run finds when it starts (see InitEnv)
  failure,           \* the check whose error OracleDiffMySQLTable returned
  runNo,             \* 1 for the run, 2 for the re-run after the repair
  waitSyncMeta,      \* wait_sync_meta: table -> "none" (no row) | "wait" |
                     \* "part" | "done"
  dataDiffMeta,      \* data_diff_meta: set of chunk rows
  tableErrorDetail,  \* table_error_detail: set of Failed records
  oracleData,        \* upstream rows per table and range (current state)
  oracleAsOf,        \* upstream states by SCN (sequence; Len = current SCN)
  mysqlData,         \* downstream rows per table and range
  mysqlTables,       \* tables that exist downstream
  pc,                \* position of StartTableDiff / startTableDiffCheck
  isCheckpoint,      \* argument of the running startTableDiffCheck
  partSyncTableInfo, \* part tables fetched before StartTableDiff
  waitSyncTableInfo, \* wait tables fetched before StartTableDiff
  diffs,             \* tables of the running startTableDiffCheck
  dIdx,              \* index in diffs of the table being compared
  diffMetas,         \* chunk rows loaded for that table
  spawned,           \* chunk workers handed to g.Go so far
  drain,             \* "none" | "run" | "done"
  wpc,               \* range -> position of that chunk's worker
  gErr,              \* first error returned to the errgroup, or NoErr
  err,               \* the err variable shared by the workers of a table
  reportResCh,       \* buffered content of the result channel
  chClosed,          \* the result channel is closed
  closer,            \* who closed it: "none" | "worker" | "spawner"
  oraChan,           \* table -> range -> upstream fetch: state or DBSummary
  mysqlChan,         \* table -> range -> downstream fetch
  fixSqlFile,        \* the repair file: sequence of written results
  panicked,          \* "none", or the runtime panic that ended the process
  faults,            \* failures injected so far
  writes,            \* upstream writes so far
  globalSCN,         \* PreSplitChunk: the snapshot token it captured
  ppc,               \* PreSplitChunk: table -> position of its planner task
  splitErr,          \* PreSplitChunk: the err variable its tasks share
  gPlanErr,          \* PreSplitChunk: first error returned to its errgroup
  planned,           \* tables PreSplitChunk has planned in this run
  compared,          \* table -> range -> comparisons started in this run
  produced,          \* chunks whose Report built a non-empty result
  skipped,           \* tables whose g.Wait returned an error
  persisted,         \* the chunk rows data_diff_meta held when the run began
  crcIn,             \* SpecCRC: the two DBSummary inputs
  crcOut,            \* SpecCRC: result of reportCheckCRC32 on crcIn
  ddlIn,             \* SpecDDL: the DDL d and w.Cfg.ReverseConfig.DirectWrite
  ddlLog,            \* SpecDDL: the writes attempted on w, in order
  ddlOut             \* SpecDDL: what d.Write(w) returned

vars == <<diffThreads, cfg, env, failure, runNo, waitSyncMeta, dataDiffMeta, tableErrorDetail,
          oracleData, oracleAsOf, mysqlData, mysqlTables, pc, isCheckpoint,
          partSyncTableInfo, waitSyncTableInfo, diffs, dIdx, diffMetas,
          spawned, drain, wpc, gErr, err, reportResCh, chClosed, closer,
          oraChan, mysqlChan, fixSqlFile, panicked, faults, writes, globalSCN,
          ppc, splitErr, gPlanErr, planned, compared, produced, skipped,
          persisted, crcIn, crcOut, ddlIn, ddlLog, ddlOut>>

\* ------------------------------------------------------------ reconciler
RECURSIVE SetToSeq(_)
\* strset.List(): the members of a set in some order
SetToSeq(S) ==
  IF S = {} THEN <<>>
  ELSE LET x == CHOOSE y \in S : TRUE IN <<x>> \o SetToSeq(S \ {x})

DBSummary(cols, rows, crc) ==
  [Columns |-> cols, StringSet |-> rows, Crc32Val |-> crc, Rows |-> 0]

\* DBSummary{Rows: rows}
RowsSummary(n) ==
  [Columns |-> <<>>, StringSet |-> {}, Crc32Val |-> 0, Rows |-> n]

Stmt(kind, row) == [kind |-> kind, row |-> row]

\* strset.Difference(mysqlReport.StringSet, oraReport.StringSet)
TargetMore(ora, mysql) == mysql.StringSet \ ora.StringSet

\* SourceMore with a fault: every upstream row counts as upstream-extra
SourceMoreAll(ora, mysql) == ora.StringSet

\* strset.Difference(oraReport.StringSet, mysqlReport.StringSet)
SourceMore(ora, mysql) == ora.StringSet \ mysql.StringSet

\* the DELETE block: header, then one DELETE per downstream-extra row
DeleteBlock(ora, mysql) ==
  LET more == SetToSeq(TargetMore(ora, mysql))
  IN  IF Len(more) > 0
      THEN <<Stmt("HEADER", <<"more">>)>> \o
           [i \in 1..Len(more) |-> Stmt("DELETE", more[i])]
      ELSE <<>>

\* InsertBlock with a fault: the INSERTs come without their header
InsertBlockNoHeader(ora, mysql) ==
  LET more == SetToSeq(SourceMore(ora, mysql))
  IN  [i \in 1..Len(more) |-> Stmt("INSERT", more[i])]

\* the INSERT block: header, then one INSERT per upstream-extra row
InsertBlock(ora, mysql) ==
  LET more == SetToSeq(SourceMore(ora, mysql))
  IN  IF Len(more) > 0
      THEN <<Stmt("HEADER", <<"less">>)>> \o
           [i \in 1..Len(more) |-> Stmt("INSERT", more[i])]
      ELSE <<>>

\* FixSQL with a fault: the INSERT block is written first
FixSQLInsertFirst(ora, mysql) == InsertBlock(ora, mysql) \o DeleteBlock(ora, mysql)

\* fixSQL as built when no row fails the column count: DELETEs, then INSERTs
FixSQL(ora, mysql) == DeleteBlock(ora, mysql) \o InsertBlock(ora, mysql)

\* len(mysqlReport.Columns) != len(colValues) for some downstream-extra row
ColumnMismatch(ora, mysql) ==
  \E t \in TargetMore(ora, mysql) : Len(mysql.Columns) # Len(t)

\* reportCheckCRC32 with a fault: the column count is not checked
reportCheckCRC32NoColumnCheck(ora, mysql) ==
  IF ora.Crc32Val = mysql.Crc32Val
  THEN [err |-> FALSE, push |-> FALSE, fixSQL |-> <<>>]
  ELSE [err |-> FALSE,
        push |-> FixSQL(ora, mysql) # <<>>,
        fixSQL |-> FixSQL(ora, mysql)]

\* reportCheckCRC32 with a fault: no return on equal CRC values, and the
\* result is pushed even when fixSQL is empty
reportCheckCRC32PushesAlways(ora, mysql) ==
  IF ColumnMismatch(ora, mysql)
  THEN [err |-> TRUE, push |-> FALSE, fixSQL |-> <<>>]
  ELSE [err |-> FALSE, push |-> TRUE, fixSQL |-> FixSQL(ora, mysql)]

\* reportCheckCRC32 after the join: [err, push, fixSQL]
\*   err  : the function returns an error
\*   push : a ReportSummary carrying fixSQL is sent to reportRes
reportCheckCRC32(ora, mysql) ==
  IF ora.Crc32Val = mysql.Crc32Val
  THEN [err |-> FALSE, push |-> FALSE, fixSQL |-> <<>>]
  ELSE IF ColumnMismatch(ora, mysql)
  THEN [err |-> TRUE, push |-> FALSE, fixSQL |-> <<>>]
  ELSE [err |-> FALSE,
        push |-> FixSQL(ora, mysql) # <<>>,
        fixSQL |-> FixSQL(ora, mysql)]

\* reportCheckRows after the join: a result is pushed when the counts differ
reportCheckRows(ora, mysql) ==
  [err |-> FALSE, push |-> ora.Rows # mysql.Rows, fixSQL |-> <<>>]

\* ------------------------------------------------------------- adapters
\* per-row digest and its commutative fold over the rows of a query
RowCrc(r) == IF r = RowA THEN 1 ELSE IF r = RowB THEN 2 ELSE 4

RECURSIVE Crc32(_)
Crc32(S) ==
  IF S = {} THEN 0
  ELSE LET x == CHOOSE y \in S : TRUE IN RowCrc(x) + Crc32(S \ {x})

\* engine.GetOracleDataRowStrings(oraQuery): oraQuery names the table and
\* the range and carries no snapshot clause, so it reads the current rows
GetOracleDataRowStrings(t, c) ==
  DBSummary(Columns, oracleData[t][c], Crc32(oracleData[t][c]))

\* engine.GetMySQLDataRowStrings(mysqlQuery)
GetMySQLDataRowStrings(t, c) ==
  DBSummary(Columns, mysqlData[t][c], Crc32(mysqlData[t][c]))

\* engine.GetOracleTableActualRows(oraQuery)
GetOracleTableActualRows(t, c) == Cardinality(oracleData[t][c])

\* engine.GetMySQLTableActualRows(mysqlQuery)
GetMySQLTableActualRows(t, c) == Cardinality(mysqlData[t][c])

\* the upstream fetch task of Report: onlyCheckRows selects the query
OracleFetch(t, c) ==
  IF cfg.OnlyCheckRows THEN RowsSummary(GetOracleTableActualRows(t, c))
  ELSE GetOracleDataRowStrings(t, c)

\* the downstream fetch task of Report
MySQLFetch(t, c) ==
  IF cfg.OnlyCheckRows THEN RowsSummary(GetMySQLTableActualRows(t, c))
  ELSE GetMySQLDataRowStrings(t, c)

\* ------------------------------------------------------------- helpers
ChunkRow(t, c, scn) == [SourceTableName |-> t, Range |-> c, SnapshotSCN |-> scn]

\* the ReportSummary of reportCheckCRC32; a nil map is the empty tuple
ReportSummary(t, c, sql) ==
  [SourceName |-> t, Range |-> c, CRC32Result |-> sql,
   SourceRows |-> <<>>, TargetRows |-> <<>>]

\* the ReportSummary of reportCheckRows: the two counts, no CRC32Result
RowsReportSummary(t, c, n, m) ==
  [SourceName |-> t, Range |-> c, CRC32Result |-> <<>>,
   SourceRows |-> <<n>>, TargetRows |-> <<m>>]

\* what the drain hands to fmt.Fprintln for one result.  CRC mode: the
\* CRC32Result.  Rows mode: the comment "/* ... data rows aren't equal */",
\* closed before the rendered table sw.Render() that follows it
Fprintln(report) ==
  [SourceName |-> report.SourceName, Range |-> report.Range,
   text |-> IF cfg.OnlyCheckRows
            THEN <<Stmt("COMMENT", <<"rows aren't equal">>),
                   Stmt("TABLE", <<ToString(report.SourceRows[1]),
                                   ToString(report.TargetRows[1])>>)>>
            ELSE report.CRC32Result]

SeqToSet(q) == {q[i] : i \in 1..Len(q)}

TablesWithStatus(st) == SelectSeq(TableOrder, LAMBDA t : waitSyncMeta[t] = st)

RECURSIVE SortedRows(_)
\* engine.GetDataDiffMeta: the chunk rows of a table, by range
SortedRows(S) ==
  IF S = {} THEN <<>>
  ELSE LET m == CHOOSE x \in S : \A y \in S : x.Range <= y.Range
       IN  <<m>> \o SortedRows(S \ {m})

GetDataDiffMeta(t) == SortedRows({m \in dataDiffMeta : m.SourceTableName = t})

CurTable == diffs[dIdx]

Running(c) == wpc[c] \notin {"idle", "done"}

\* goroutines of the errgroup g that hold one of its slots
Active == (IF drain = "run" THEN 1 ELSE 0) + Cardinality({c \in Ranges : Running(c)})

Fetching(ch) == {tc \in Tables \X Ranges : ch[tc[1]][tc[2]].st = "run"}

\* adapter queries in flight
InFlight == Cardinality(Fetching(oraChan)) + Cardinality(Fetching(mysqlChan))

Alive == panicked = "none" /\ pc \notin {"returned", "failed"}

InTable == Alive /\ pc = "spawn"

FirstErr(e) == IF gErr = NoErr THEN e ELSE gErr

Fault == faults < MaxFaults /\ faults' = faults + 1
NoFault == faults' = faults

\* a fetch task and its result channel (oraChan / mysqlChan of one chunk):
\* st is "none" (not started), "run", "err" (the task returned an error) or
\* "ok" (the DBSummary sum is in the channel)
FetchState(st) == [st |-> st, sum |-> DBSummary(<<>>, {}, 0)]
FetchOk(sum) == [st |-> "ok", sum |-> sum]

EmptyFetch == [t \in Tables |-> [c \in Ranges |-> FetchState("none")]]

\* ----------------------------------------------------------- initial state
\* chunk data of the run: every range of every table is equal on both
\* sides, or differs by one upstream-extra and one downstream-extra row
OraCases == {{RowB}, {RowA}}
MysqlRows == {RowB}

\* the state in which OracleDiffMySQLTable calls StartTableDiff: the gate
\* and ResumeCheck have passed, so some table is wait or part, every part
\* table has chunk rows left and a wait table has none
InitMeta ==
  /\ waitSyncMeta \in [Tables -> {"wait", "part", "done"}]
  /\ \E t \in Tables : waitSyncMeta[t] # "done"
  /\ \E left \in [Tables -> SUBSET Ranges] :
       /\ \A t \in Tables : (left[t] # {}) <=> (waitSyncMeta[t] = "part")
       /\ dataDiffMeta = {ChunkRow(tc[1], tc[2], 1) :
                            tc \in {x \in Tables \X Ranges : x[2] \in left[x[1]]}}
  /\ tableErrorDetail = {}

InitData ==
  /\ \E d \in [Ranges -> OraCases] : oracleData = [t \in Tables |-> d]
  /\ oracleAsOf = <<oracleData>>
  /\ mysqlData = [t \in Tables |-> [c \in Ranges |-> MysqlRows]]
  /\ mysqlTables \in {Tables, Tables \ {TableOrder[Len(TableOrder)]}}

\* the environment of a run that passes every pre-flight check, CRC mode
InitPassed ==
  /\ cfg = [EnableCheckpoint |-> TRUE, OnlyCheckRows |-> FALSE,
            IgnoreStructCheck |-> TRUE]
  /\ env = [version |-> TRUE, tables |-> TableOrder, charset |-> TRUE,
            nls |-> TRUE, struct |-> TRUE, meta0 |-> waitSyncMeta,
            file0 |-> <<>>, errors0 |-> tableErrorDetail]
  /\ failure = "none"
  /\ runNo = 1

\* no planner task has been started
InitPlan ==
  /\ globalSCN = 0
  /\ ppc = [t \in Tables |-> "idle"]
  /\ splitErr = NoErr
  /\ gPlanErr = NoErr

InitRun ==
  /\ pc = "callPart"
  /\ isCheckpoint = TRUE
  /\ partSyncTableInfo = TablesWithStatus("part")
  /\ waitSyncTableInfo = TablesWithStatus("wait")
  /\ diffs = <<>>
  /\ dIdx = 1
  /\ diffMetas = <<>>
  /\ spawned = 0
  /\ drain = "none"
  /\ wpc = [c \in Ranges |-> "idle"]
  /\ gErr = NoErr
  /\ err = NoErr
  /\ reportResCh = <<>>
  /\ chClosed = FALSE
  /\ closer = "none"
  /\ oraChan = EmptyFetch
  /\ mysqlChan = EmptyFetch
  /\ fixSqlFile = <<>>
  /\ panicked = "none"
  /\ faults = 0
  /\ writes = 0
  /\ InitPlan
  /\ planned = {}
  /\ compared = [t \in Tables |-> [c \in Ranges |-> 0]]
  /\ produced = {}
  /\ skipped = {}
  /\ persisted = dataDiffMeta

\* no DDL is being written
InitDDLIdle ==
  /\ ddlIn = <<>>
  /\ ddlLog = <<>>
  /\ ddlOut = <<>>

InitCRCIdle ==
  /\ crcIn = <<>>
  /\ crcOut = <<>>
  /\ InitDDLIdle

Init ==
  /\ diffThreads \in 1..MaxThreads
  /\ InitMeta
  /\ InitData
  /\ InitRun
  /\ InitPassed
  /\ InitCRCIdle

dbVars == <<oracleData, oracleAsOf, mysqlData, mysqlTables, writes>>
gateVars == <<cfg, env, failure, runNo>>
ddlVars == <<ddlIn, ddlLog, ddlOut>>
planVars == <<globalSCN, ppc, splitErr, gPlanErr>>
cfgVars == <<diffThreads, partSyncTableInfo, waitSyncTableInfo, crcIn, crcOut, ddlVars,
             gateVars, planVars>>
runCfgVars == <<diffThreads, partSyncTableInfo, waitSyncTableInfo, gateVars,
                planVars, ddlVars>>
groupVars == <<diffMetas, spawned, drain, wpc, gErr, err, reportResCh,
               chClosed, closer>>
loopVars == <<pc, isCheckpoint, diffs, dIdx>>
fetchVars == <<oraChan, mysqlChan>>
metaVars == <<waitSyncMeta, dataDiffMeta, tableErrorDetail>>
ghostVars == <<planned, compared, produced, skipped, persisted>>

\* ------------------------------------------------- OracleDiffMySQLTable
\* what a pre-flight step of OracleDiffMySQLTable leaves alone
gateFrame == <<isCheckpoint, diffs, dIdx, dbVars, diffThreads, planVars, crcIn, crcOut, ddlVars,
               cfg, env, runNo, groupVars, fetchVars, tableErrorDetail,
               ghostVars, panicked>>

\* a pre-flight step returns the error named what
Refuse(what) == pc' = "failed" /\ failure' = what

\* an engine call of a pre-flight step fails: return err
EngineErr == Fault /\ Refuse("engine error")

\* engine.GetOracleDBVersion and the 11g requirement
GetOracleDBVersion ==
  /\ Alive /\ pc = "GetOracleDBVersion"
  /\ \/ /\ NoFault
        /\ IF env.version
           THEN pc' = "GenerateTables" /\ UNCHANGED failure
           ELSE Refuse("oracle db version")
     \/ EngineErr
  /\ UNCHANGED <<gateFrame, waitSyncMeta, dataDiffMeta, partSyncTableInfo,
                 waitSyncTableInfo, fixSqlFile>>

\* cfg.GenerateTables: with no table the run returns nil
GenerateTables ==
  /\ Alive /\ pc = "GenerateTables"
  /\ \/ /\ NoFault
        /\ pc' = IF Len(env.tables) = 0 THEN "returned"
                 ELSE "GetTableErrorDetailCountByMode"
        /\ UNCHANGED failure
     \/ EngineErr
  /\ UNCHANGED <<gateFrame, waitSyncMeta, dataDiffMeta, partSyncTableInfo,
                 waitSyncTableInfo, fixSqlFile>>

\* GetTableErrorDetailCountByMode with a fault: errorTotals is not looked at
GetTableErrorDetailCountIgnored ==
  /\ Alive /\ pc = "GetTableErrorDetailCountByMode"
  /\ NoFault
  /\ pc' = "InitWaitSyncTableMetaRecord"
  /\ UNCHANGED <<gateFrame, failure, waitSyncMeta, dataDiffMeta,
                 partSyncTableInfo, waitSyncTableInfo, fixSqlFile>>

\* errorTotals > 0: table_error_detail holds Failed records of this mode
GetTableErrorDetailCountByMode ==
  /\ Alive /\ pc = "GetTableErrorDetailCountByMode"
  /\ \/ /\ NoFault
        /\ IF Cardinality(tableErrorDetail) > 0
           THEN Refuse("exist failed error")
           ELSE pc' = "InitWaitSyncTableMetaRecord" /\ UNCHANGED failure
     \/ EngineErr
  /\ UNCHANGED <<gateFrame, waitSyncMeta, dataDiffMeta, partSyncTableInfo,
                 waitSyncTableInfo, fixSqlFile>>

\* for every table of tbls: IsExistWaitSyncTableMetaRecord, and
\* InitWaitSyncTableMetaRecord when it has no row
EnsureWait(meta, tbls) ==
  [t \in Tables |-> IF t \in tbls /\ meta[t] = "none" THEN "wait" ELSE meta[t]]

InitWaitSyncTableMetaRecord ==
  /\ Alive /\ pc = "InitWaitSyncTableMetaRecord"
  /\ \/ /\ NoFault
        /\ waitSyncMeta' = EnsureWait(waitSyncMeta, SeqToSet(env.tables))
        /\ pc' = "TruncateDataDiffMetaRecord"
        /\ UNCHANGED failure
     \/ EngineErr /\ UNCHANGED waitSyncMeta
  /\ UNCHANGED <<gateFrame, dataDiffMeta, partSyncTableInfo,
                 waitSyncTableInfo, fixSqlFile>>

\* engine.DeleteWaitSyncTableMetaRecord for every table of tbls
DeleteWaitSyncTableMetaRecord(meta, tbls) ==
  [t \in Tables |-> IF t \in tbls THEN "none" ELSE meta[t]]

\* ResetTables with a fault: the task rows are not deleted
ResetTablesNoDelete(meta, tbls) == EnsureWait(meta, tbls)

\* the loop of the reset: delete the task row, insert it again as wait
ResetTables(meta, tbls) ==
  EnsureWait(DeleteWaitSyncTableMetaRecord(meta, tbls), tbls)

\* if !cfg.DiffConfig.EnableCheckpoint: TruncateDataDiffMetaRecord and the
\* reset of the task rows
TruncateDataDiffMetaRecord ==
  /\ Alive /\ pc = "TruncateDataDiffMetaRecord"
  /\ \/ /\ NoFault
        /\ IF ~cfg.EnableCheckpoint
           THEN /\ dataDiffMeta' = {}
                /\ waitSyncMeta' = ResetTables(waitSyncMeta, SeqToSet(env.tables))
           ELSE UNCHANGED <<dataDiffMeta, waitSyncMeta>>
        /\ pc' = "GetWaitSyncTableMetaRecord"
        /\ UNCHANGED failure
     \/ /\ ~cfg.EnableCheckpoint
        /\ EngineErr
        /\ UNCHANGED <<dataDiffMeta, waitSyncMeta>>
  /\ UNCHANGED <<gateFrame, partSyncTableInfo, waitSyncTableInfo, fixSqlFile>>

\* GetWaitSyncTableMetaRecord and GetPartSyncTableMetaRecord; with neither
\* a wait nor a part table the run returns nil
GetWaitSyncTableMetaRecord ==
  /\ Alive /\ pc = "GetWaitSyncTableMetaRecord"
  /\ \/ /\ NoFault
        /\ waitSyncTableInfo' = TablesWithStatus("wait")
        /\ partSyncTableInfo' = TablesWithStatus("part")
        /\ pc' = IF Len(TablesWithStatus("wait")) = 0
                    /\ Len(TablesWithStatus("part")) = 0
                 THEN "returned" ELSE "JudgingCheckpointResume"
        /\ UNCHANGED failure
     \/ EngineErr /\ UNCHANGED <<waitSyncTableInfo, partSyncTableInfo>>
  /\ UNCHANGED <<gateFrame, waitSyncMeta, dataDiffMeta, fixSqlFile>>

\* the part tables engine.JudgingCheckpointResume reports: no chunk row left
panicCheckpointTables ==
  {t \in SeqToSet(partSyncTableInfo) : Len(GetDataDiffMeta(t)) = 0}

JudgingCheckpointResume ==
  /\ Alive /\ pc = "JudgingCheckpointResume"
  /\ \/ /\ NoFault
        /\ IF panicCheckpointTables # {}
           THEN Refuse("checkpoint isn't consistent")
           ELSE pc' = "GetOracleDBCharacterSet" /\ UNCHANGED failure
     \/ EngineErr
  /\ UNCHANGED <<gateFrame, waitSyncMeta, dataDiffMeta, partSyncTableInfo,
                 waitSyncTableInfo, fixSqlFile>>

\* engine.GetOracleDBCharacterSet and utils.OracleDBCharacterSetMap
GetOracleDBCharacterSet ==
  /\ Alive /\ pc = "GetOracleDBCharacterSet"
  /\ \/ /\ NoFault
        /\ IF env.charset
           THEN pc' = "GetOracleDBCharacterNLSSortCollation" /\ UNCHANGED failure
           ELSE Refuse("character set")
     \/ EngineErr
  /\ UNCHANGED <<gateFrame, waitSyncMeta, dataDiffMeta, partSyncTableInfo,
                 waitSyncTableInfo, fixSqlFile>>

\* NLS_SORT and NLS_COMP: both supported and equal
GetOracleDBCharacterNLSSortCollation ==
  /\ Alive /\ pc = "GetOracleDBCharacterNLSSortCollation"
  /\ \/ /\ NoFault
        /\ IF env.nls
           THEN pc' = "OpenFile" /\ UNCHANGED failure
           ELSE Refuse("nls sort / nls comp")
     \/ EngineErr
  /\ UNCHANGED <<gateFrame, waitSyncMeta, dataDiffMeta, partSyncTableInfo,
                 waitSyncTableInfo, fixSqlFile>>

\* os.OpenFile(..., O_WRONLY|O_CREATE|O_APPEND|O_TRUNC): the repair file is
\* emptied; StartTableDiff is called next
OpenFile ==
  /\ Alive /\ pc = "OpenFile"
  /\ \/ /\ NoFault
        /\ fixSqlFile' = <<>>
        /\ pc' = "callPart"
        /\ UNCHANGED failure
     \/ EngineErr /\ UNCHANGED fixSqlFile
  /\ UNCHANGED <<gateFrame, waitSyncMeta, dataDiffMeta, partSyncTableInfo,
                 waitSyncTableInfo>>

\* ----------------------------------------------------------- StartTableDiff
\* if len(partSyncTableInfo) > 0 { startTableDiffCheck(..., true) }
EnterPart ==
  /\ Alive /\ pc = "callPart"
  /\ IF Len(partSyncTableInfo) > 0
     THEN pc' = "PreDiffCheck" /\ isCheckpoint' = TRUE
     ELSE pc' = "callWait" /\ UNCHANGED isCheckpoint
  /\ UNCHANGED <<diffs, dIdx, dbVars, cfgVars, groupVars, fetchVars, metaVars,
                 ghostVars, fixSqlFile, panicked, faults>>

\* if len(waitSyncTableInfo) > 0 { startTableDiffCheck(..., false) }
EnterWait ==
  /\ Alive /\ pc = "callWait"
  /\ IF Len(waitSyncTableInfo) > 0
     THEN pc' = "PreDiffCheck" /\ isCheckpoint' = FALSE
     ELSE pc' = "returned" /\ UNCHANGED isCheckpoint
  /\ UNCHANGED <<diffs, dIdx, dbVars, cfgVars, groupVars, fetchVars, metaVars,
                 ghostVars, fixSqlFile, panicked, faults>>

\* utils.FilterDifferenceStringItems(exporterTableSlice, mysqlTables)
FilterDifferenceStringItems(tbls) == SeqToSet(tbls) \ mysqlTables

\* PreDiffCheckErr with a fault: the structure check comes first
PreDiffCheckErrStructFirst(tbls) ==
  IF ~cfg.IgnoreStructCheck /\ ~env.struct THEN "struct isn't equal"
  ELSE IF FilterDifferenceStringItems(tbls) # {} THEN "table isn't exists"
  ELSE NoErr

\* the error PreDiffCheck(exporterTableSlice) returns, or NoErr: the
\* downstream existence of the listed tables, then the structure check
PreDiffCheckErr(tbls) ==
  IF FilterDifferenceStringItems(tbls) # {} THEN "table isn't exists"
  ELSE IF ~cfg.IgnoreStructCheck /\ ~env.struct THEN "struct isn't equal"
  ELSE NoErr

\* PreDiffCheck, then NewDiff for the part tables
PreDiffCheck ==
  /\ Alive /\ pc = "PreDiffCheck"
  /\ LET tbls == IF isCheckpoint THEN partSyncTableInfo ELSE waitSyncTableInfo
     IN  IF PreDiffCheckErr(tbls) # NoErr
         THEN /\ pc' = "failed"
              /\ failure' = PreDiffCheckErr(tbls)
              /\ UNCHANGED <<diffs, dIdx>>
         ELSE /\ UNCHANGED failure
              /\ IF isCheckpoint
                 THEN pc' = "loop" /\ diffs' = partSyncTableInfo /\ dIdx' = 1
                 ELSE pc' = "PreSplitChunk" /\ UNCHANGED <<diffs, dIdx>>
  /\ UNCHANGED <<isCheckpoint, dbVars, diffThreads, planVars, partSyncTableInfo,
                 waitSyncTableInfo, crcIn, crcOut, ddlVars, cfg, env, runNo, groupVars,
                 fetchVars, metaVars, ghostVars, fixSqlFile, panicked, faults>>

\* Diff.SplitChunk(workerID, globalSCN) of table t: n chunk rows carrying
\* the snapshot token are written and the table becomes part, in one
\* transaction
SplitChunk(t, n, scn) ==
  /\ dataDiffMeta' = dataDiffMeta \cup {ChunkRow(t, c, scn) : c \in 1..n}
  /\ waitSyncMeta' = [waitSyncMeta EXCEPT ![t] = "part"]

\* what a step of PreSplitChunk leaves alone
planFrame == <<isCheckpoint, dbVars, diffThreads, partSyncTableInfo,
               waitSyncTableInfo, crcIn, crcOut, ddlVars, cfg, env, runNo, groupVars,
               fetchVars, tableErrorDetail, compared, produced, skipped,
               persisted, fixSqlFile, panicked>>

\* PreSplitChunk up to the errgroup: NewDiff, then
\* engine.GetOracleCurrentSnapshotSCN; either can fail
PreSplitChunk ==
  /\ Alive /\ pc = "PreSplitChunk"
  /\ \/ /\ NoFault
        /\ globalSCN' = Len(oracleAsOf)
        /\ pc' = "GoSplitChunk"
     \/ /\ Fault
        /\ pc' = "failed"
        /\ UNCHANGED globalSCN
  /\ UNCHANGED <<planFrame, diffs, dIdx, failure, ppc, splitErr, gPlanErr,
                 dataDiffMeta, waitSyncMeta, planned>>

\* planner tasks that hold a slot of the errgroup of PreSplitChunk
Planning == {t \in Tables : ppc[t] \in {"SplitChunk", "CheckSplitErr"}}

\* g.Go(task) for the next table of the list: blocks while diffThreads
\* tasks are active
GoSplitChunk ==
  /\ Alive /\ pc = "GoSplitChunk"
  /\ Cardinality(Planning) < diffThreads
  /\ \E i \in 1..Len(waitSyncTableInfo) :
       /\ ppc[waitSyncTableInfo[i]] = "idle"
       /\ \A j \in 1..(i - 1) : ppc[waitSyncTableInfo[j]] # "idle"
       /\ ppc' = [ppc EXCEPT ![waitSyncTableInfo[i]] = "SplitChunk"]
  /\ UNCHANGED <<planFrame, pc, diffs, dIdx, failure, globalSCN, splitErr,
                 gPlanErr, dataDiffMeta, waitSyncMeta, planned, faults>>

\* err = diff.SplitChunk(workerID, globalSCN): the result is stored in the
\* err variable of PreSplitChunk, which every task shares
SplitChunkTask(t) ==
  /\ Alive /\ pc = "GoSplitChunk"
  /\ ppc[t] = "SplitChunk"
  /\ \/ /\ NoFault
        /\ \E n \in 1..MaxChunks : SplitChunk(t, n, globalSCN)
        /\ planned' = planned \cup {t}
        /\ splitErr' = NoErr
     \/ /\ Fault
        /\ splitErr' = "split chunk failed"
        /\ UNCHANGED <<dataDiffMeta, waitSyncMeta, planned>>
  /\ ppc' = [ppc EXCEPT ![t] = "CheckSplitErr"]
  /\ UNCHANGED <<planFrame, pc, diffs, dIdx, failure, globalSCN, gPlanErr>>

\* ...; err != nil { return fmt.Errorf(...) }; return nil: the task reads
\* the shared err
CheckSplitErr(t) ==
  /\ Alive /\ pc = "GoSplitChunk"
  /\ ppc[t] = "CheckSplitErr"
  /\ gPlanErr' = IF splitErr # NoErr /\ gPlanErr = NoErr
                 THEN "pre split table chunk failed" ELSE gPlanErr
  /\ ppc' = [ppc EXCEPT ![t] = "done"]
  /\ UNCHANGED <<planFrame, pc, diffs, dIdx, failure, globalSCN, splitErr,
                 dataDiffMeta, waitSyncMeta, planned, faults>>

\* g.Wait() of PreSplitChunk, once every task has been handed over and has
\* returned: its error is the error of PreSplitChunk, else the diffs
PlanWait ==
  /\ Alive /\ pc = "GoSplitChunk"
  /\ \A t \in SeqToSet(waitSyncTableInfo) : ppc[t] = "done"
  /\ IF gPlanErr # NoErr
     THEN /\ pc' = "failed"
          /\ failure' = gPlanErr
          /\ UNCHANGED <<diffs, dIdx>>
     ELSE /\ pc' = "loop" /\ diffs' = waitSyncTableInfo /\ dIdx' = 1
          /\ UNCHANGED failure
  /\ UNCHANGED <<planFrame, globalSCN, ppc, splitErr, gPlanErr, dataDiffMeta,
                 waitSyncMeta, planned, faults>>

\* -------------------------------------------------- startTableDiffCheck
\* for _, d := range diffs: GetDataDiffMeta, the errgroup g, reportResCh and
\* the g.Go of the drain; after the last table the call returns nil
LoopHead ==
  /\ Alive /\ pc = "loop"
  /\ IF dIdx > Len(diffs)
     THEN /\ pc' = IF isCheckpoint THEN "callWait" ELSE "returned"
          /\ NoFault
          /\ UNCHANGED groupVars
     ELSE \/ /\ NoFault
             /\ pc' = "spawn"
             /\ diffMetas' = GetDataDiffMeta(CurTable)
             /\ spawned' = 0
             /\ drain' = "run"
             /\ wpc' = [c \in Ranges |-> "idle"]
             /\ gErr' = NoErr
             /\ err' = NoErr
             /\ reportResCh' = <<>>
             /\ chClosed' = FALSE
             /\ closer' = "none"
          \/ /\ Fault
             /\ pc' = "failed"
             /\ UNCHANGED groupVars
  /\ UNCHANGED <<isCheckpoint, diffs, dIdx, dbVars, cfgVars, fetchVars,
                 metaVars, ghostVars, fixSqlFile, panicked>>

\* g.Go(worker) for the next chunk row: blocks while diffThreads + 1
\* goroutines of g are active; the worker enters Report and reportCheckCRC32
\* starts the two fetches
Spawn ==
  /\ InTable
  /\ spawned < Len(diffMetas)
  /\ Active < diffThreads + 1
  /\ LET c == diffMetas[spawned + 1].Range
         t == CurTable
     IN  /\ wpc' = [wpc EXCEPT ![c] = "Report"]
         /\ oraChan' = [oraChan EXCEPT ![t][c] = FetchState("run")]
         /\ mysqlChan' = [mysqlChan EXCEPT ![t][c] = FetchState("run")]
         /\ compared' = [compared EXCEPT ![t][c] = @ + 1]
  /\ spawned' = spawned + 1
  /\ UNCHANGED <<loopVars, dbVars, cfgVars, diffMetas, drain, gErr, err,
                 reportResCh, chClosed, closer, metaVars, planned, produced,
                 skipped, persisted, fixSqlFile, panicked, faults>>

\* errORA.Go: engine.GetOracleDataRowStrings(oraQuery) completes
OraFetchDone(t, c) ==
  /\ Alive
  /\ oraChan[t][c].st = "run"
  /\ \/ /\ NoFault
        /\ oraChan' = [oraChan EXCEPT ![t][c] = FetchOk(OracleFetch(t, c))]
     \/ /\ Fault
        /\ oraChan' = [oraChan EXCEPT ![t][c] = FetchState("err")]
  /\ UNCHANGED <<loopVars, dbVars, cfgVars, groupVars, mysqlChan, metaVars,
                 ghostVars, fixSqlFile, panicked>>

\* errMySQL.Go: engine.GetMySQLDataRowStrings(mysqlQuery) completes
MySQLFetchDone(t, c) ==
  /\ Alive
  /\ mysqlChan[t][c].st = "run"
  /\ \/ /\ NoFault
        /\ mysqlChan' = [mysqlChan EXCEPT ![t][c] = FetchOk(MySQLFetch(t, c))]
     \/ /\ Fault
        /\ mysqlChan' = [mysqlChan EXCEPT ![t][c] = FetchState("err")]
  /\ UNCHANGED <<loopVars, dbVars, cfgVars, groupVars, oraChan, metaVars,
                 ghostVars, fixSqlFile, panicked>>

\* ReportReady with a fault: errMySQL.Wait is left out
ReportReadyNoJoin(t, c) == oraChan[t][c].st # "run"

\* what Report returns once errORA.Wait and errMySQL.Wait let it through:
\* errORA.Wait returns the upstream error without waiting for the downstream
ReportReady(t, c) ==
  /\ oraChan[t][c].st # "run"
  /\ oraChan[t][c].st = "err" \/ mysqlChan[t][c].st # "run"

ReportResult(t, c) ==
  IF oraChan[t][c].st = "err" \/ mysqlChan[t][c].st = "err"
  THEN [err |-> TRUE, push |-> FALSE, fixSQL |-> <<>>]
  ELSE IF cfg.OnlyCheckRows
  THEN reportCheckRows(oraChan[t][c].sum, mysqlChan[t][c].sum)
  ELSE reportCheckCRC32(oraChan[t][c].sum, mysqlChan[t][c].sum)

\* Report(...) up to the send on reportRes
ReportJoin(c) ==
  /\ InTable
  /\ wpc[c] = "Report"
  /\ ReportReady(CurTable, c)
  /\ LET r == ReportResult(CurTable, c)
     IN  /\ wpc' = [wpc EXCEPT ![c] =
                IF r.err THEN "LogReportErr"
                ELSE IF r.push THEN "Send" ELSE "Delete"]
         /\ produced' = IF r.push THEN produced \cup {<<CurTable, c>>} ELSE produced
  /\ UNCHANGED <<loopVars, dbVars, cfgVars, diffMetas, spawned, drain, gErr,
                 err, reportResCh, chClosed, closer, fetchVars, metaVars,
                 planned, compared, skipped, persisted, fixSqlFile, panicked,
                 faults>>

\* reportRes <- ReportSummary{...}: blocks while the buffer is full, panics
\* on a closed channel
Send(c) ==
  /\ InTable
  /\ wpc[c] = "Send"
  /\ IF chClosed
     THEN /\ panicked' = "send on closed channel"
          /\ UNCHANGED <<reportResCh, wpc>>
     ELSE /\ Len(reportResCh) < BufferSize
          /\ reportResCh' = Append(reportResCh,
               IF cfg.OnlyCheckRows
               THEN RowsReportSummary(CurTable, c,
                                      oraChan[CurTable][c].sum.Rows,
                                      mysqlChan[CurTable][c].sum.Rows)
               ELSE ReportSummary(CurTable, c, ReportResult(CurTable, c).fixSQL))
          /\ wpc' = [wpc EXCEPT ![c] = "Delete"]
          /\ UNCHANGED panicked
  /\ UNCHANGED <<loopVars, dbVars, cfgVars, diffMetas, spawned, drain, gErr,
                 err, chClosed, closer, fetchVars, metaVars, ghostVars,
                 fixSqlFile, faults>>

ErrorRecord(t, c, what) == [SourceTableName |-> t, Detail |-> c,
                            RunStatus |-> "Failed", Error |-> what]

\* LogReportErr with a fault: the worker returns the error of Report once
\* the record is written, and leaves the chunk row alone
LogReportErrReturns(c) ==
  /\ InTable
  /\ wpc[c] = "LogReportErr"
  /\ \/ /\ NoFault
        /\ tableErrorDetail' = tableErrorDetail \cup
             {ErrorRecord(CurTable, c, "data diff record report failed")}
     \/ /\ Fault
        /\ UNCHANGED tableErrorDetail
  /\ wpc' = [wpc EXCEPT ![c] = "done"]
  /\ gErr' = FirstErr("func [Report] failed")
  /\ UNCHANGED <<loopVars, dbVars, cfgVars, diffMetas, spawned, drain, err,
                 reportResCh, chClosed, closer, fetchVars, waitSyncMeta,
                 dataDiffMeta, ghostVars, fixSqlFile, panicked>>

\* Report failed: engine.GormDB.Create(&service.TableErrorDetail{...}); the
\* worker returns an error only when the Create fails
LogReportErr(c) ==
  /\ InTable
  /\ wpc[c] = "LogReportErr"
  /\ \/ /\ NoFault
        /\ tableErrorDetail' = tableErrorDetail \cup
             {ErrorRecord(CurTable, c, "data diff record report failed")}
        /\ wpc' = [wpc EXCEPT ![c] = "Delete"]
        /\ UNCHANGED gErr
     \/ /\ Fault
        /\ wpc' = [wpc EXCEPT ![c] = "done"]
        /\ gErr' = FirstErr("func [Report] failed")
        /\ UNCHANGED tableErrorDetail
  /\ UNCHANGED <<loopVars, dbVars, cfgVars, diffMetas, spawned, drain, err,
                 reportResCh, chClosed, closer, fetchVars, waitSyncMeta,
                 dataDiffMeta, ghostVars, fixSqlFile, panicked>>

\* err = engine.DeleteDataDiffMeta(schema, table, range): the result is
\* stored in the err variable the workers of the table share
DeleteDataDiffMeta(c) ==
  /\ InTable
  /\ wpc[c] = "Delete"
  /\ \/ /\ NoFault
        /\ dataDiffMeta' = {m \in dataDiffMeta :
             ~(m.SourceTableName = CurTable /\ m.Range = c)}
        /\ err' = NoErr
     \/ /\ Fault
        /\ err' = "delete failed"
        /\ UNCHANGED dataDiffMeta
  /\ wpc' = [wpc EXCEPT ![c] = "CheckDeleteErr"]
  /\ UNCHANGED <<loopVars, dbVars, cfgVars, diffMetas, spawned, drain, gErr,
                 reportResCh, chClosed, closer, fetchVars, waitSyncMeta,
                 tableErrorDetail, ghostVars, fixSqlFile, panicked>>

\* ...; err != nil: the worker reads the shared err
CheckDeleteErr(c) ==
  /\ InTable
  /\ wpc[c] = "CheckDeleteErr"
  /\ wpc' = [wpc EXCEPT ![c] = IF err # NoErr THEN "LogDeleteErr" ELSE "Close"]
  /\ UNCHANGED <<loopVars, dbVars, cfgVars, diffMetas, spawned, drain, gErr,
                 err, reportResCh, chClosed, closer, fetchVars, metaVars,
                 ghostVars, fixSqlFile, panicked, faults>>

\* err = engine.GormDB.Create(&service.TableErrorDetail{... err.Error() ...})
\* reads the shared err again (nil by now if another worker's delete
\* succeeded) and stores the result of the Create in it
LogDeleteErr(c) ==
  /\ InTable
  /\ wpc[c] = "LogDeleteErr"
  /\ IF err = NoErr
     THEN /\ panicked' = "nil pointer dereference"
          /\ NoFault
          /\ UNCHANGED <<wpc, err, tableErrorDetail>>
     ELSE /\ \/ /\ NoFault
                /\ tableErrorDetail' = tableErrorDetail \cup
                     {ErrorRecord(CurTable, c, "delete [data_diff_meta] record write failed")}
                /\ err' = NoErr
             \/ /\ Fault
                /\ err' = "create failed"
                /\ UNCHANGED tableErrorDetail
          /\ wpc' = [wpc EXCEPT ![c] = "CheckCreateErr"]
          /\ UNCHANGED panicked
  /\ UNCHANGED <<loopVars, dbVars, cfgVars, diffMetas, spawned, drain, gErr,
                 reportResCh, chClosed, closer, fetchVars, waitSyncMeta,
                 dataDiffMeta, ghostVars, fixSqlFile>>

\* ...; err != nil { return fmt.Errorf(...) }
CheckCreateErr(c) ==
  /\ InTable
  /\ wpc[c] = "CheckCreateErr"
  /\ IF err # NoErr
     THEN /\ wpc' = [wpc EXCEPT ![c] = "done"]
          /\ gErr' = FirstErr("func [Report] diff table task failed")
     ELSE /\ wpc' = [wpc EXCEPT ![c] = "Close"]
          /\ UNCHANGED gErr
  /\ UNCHANGED <<loopVars, dbVars, cfgVars, diffMetas, spawned, drain, err,
                 reportResCh, chClosed, closer, fetchVars, metaVars,
                 ghostVars, fixSqlFile, panicked, faults>>

\* close(reportResCh); return nil -- executed by every worker
WorkerClose(c) ==
  /\ chClosed' = TRUE
  /\ closer' = "worker"
  /\ wpc' = [wpc EXCEPT ![c] = "done"]
  /\ UNCHANGED panicked

Close(c) ==
  /\ InTable
  /\ wpc[c] = "Close"
  /\ IF chClosed
     THEN /\ panicked' = "close of closed channel"
          /\ UNCHANGED <<chClosed, closer, wpc>>
     ELSE WorkerClose(c)
  /\ UNCHANGED <<loopVars, dbVars, cfgVars, diffMetas, spawned, drain, gErr,
                 err, reportResCh, fetchVars, metaVars, ghostVars, fixSqlFile,
                 faults>>

\* the drain: for report := range reportResCh { fmt.Fprintln(fixFileMW, ...) }
DrainWrite ==
  /\ InTable
  /\ drain = "run"
  /\ Len(reportResCh) > 0
  /\ reportResCh' = Tail(reportResCh)
  /\ \/ /\ NoFault
        /\ fixSqlFile' = Append(fixSqlFile, Fprintln(Head(reportResCh)))
        /\ UNCHANGED <<drain, gErr>>
     \/ /\ Fault
        /\ drain' = "done"
        /\ gErr' = FirstErr("fix sql file write failed")
        /\ UNCHANGED fixSqlFile
  /\ UNCHANGED <<loopVars, dbVars, cfgVars, diffMetas, spawned, wpc, err,
                 chClosed, closer, fetchVars, metaVars, ghostVars, panicked>>

\* the range loop ends on a closed and empty channel: return nil
DrainExit ==
  /\ InTable
  /\ drain = "run"
  /\ Len(reportResCh) = 0
  /\ chClosed
  /\ drain' = "done"
  /\ UNCHANGED <<loopVars, dbVars, cfgVars, diffMetas, spawned, wpc, gErr, err,
                 reportResCh, chClosed, closer, fetchVars, metaVars, ghostVars,
                 fixSqlFile, panicked, faults>>

\* engine.ModifyWaitSyncTableMetaRecord: the table's status becomes done
ModifyWaitSyncTableMetaRecord(t) ==
  waitSyncMeta' = [waitSyncMeta EXCEPT ![t] = "done"]

\* AfterWait with a fault: the error of the group is ignored
AfterWaitIgnoresErr(e) ==
  /\ ModifyWaitSyncTableMetaRecord(CurTable)
  /\ skipped' = IF e # NoErr THEN skipped \cup {CurTable} ELSE skipped
  /\ dIdx' = dIdx + 1
  /\ pc' = "loop"
  /\ NoFault

\* what follows g.Wait() when it returned e
AfterWait(e) ==
  IF e # NoErr
  THEN /\ skipped' = skipped \cup {CurTable}
       /\ dIdx' = dIdx + 1
       /\ pc' = "loop"
       /\ NoFault
       /\ UNCHANGED waitSyncMeta
  ELSE \/ /\ NoFault
          /\ ModifyWaitSyncTableMetaRecord(CurTable)
          /\ dIdx' = dIdx + 1
          /\ pc' = "loop"
          /\ UNCHANGED skipped
       \/ /\ Fault
          /\ pc' = "failed"
          /\ UNCHANGED <<waitSyncMeta, dIdx, skipped>>

\* g.Wait() returns once every goroutine handed to g has returned
GWait ==
  /\ InTable
  /\ spawned = Len(diffMetas)
  /\ Active = 0
  /\ AfterWait(gErr)
  /\ UNCHANGED <<isCheckpoint, diffs, dbVars, cfgVars, groupVars, fetchVars,
                 dataDiffMeta, tableErrorDetail, planned, compared, produced,
                 persisted, fixSqlFile, panicked>>

\* ------------------------------------------------------------------ Spec
Next ==
  \/ EnterPart
  \/ EnterWait
  \/ PreDiffCheck
  \/ PreSplitChunk
  \/ GoSplitChunk
  \/ \E t \in Tables : SplitChunkTask(t)
  \/ \E t \in Tables : CheckSplitErr(t)
  \/ PlanWait
  \/ LoopHead
  \/ Spawn
  \/ \E t \in Tables, c \in Ranges : OraFetchDone(t, c)
  \/ \E t \in Tables, c \in Ranges : MySQLFetchDone(t, c)
  \/ \E c \in Ranges : ReportJoin(c)
  \/ \E c \in Ranges : Send(c)
  \/ \E c \in Ranges : LogReportErr(c)
  \/ \E c \in Ranges : DeleteDataDiffMeta(c)
  \/ \E c \in Ranges : CheckDeleteErr(c)
  \/ \E c \in Ranges : LogDeleteErr(c)
  \/ \E c \in Ranges : CheckCreateErr(c)
  \/ \E c \in Ranges : Close(c)
  \/ DrainWrite
  \/ DrainExit
  \/ GWait

Spec == Init /\ [][Next]_vars

\* -------------------------------------------------------------- SpecGate
\* a fragment an earlier run left in the repair file
OldFragment == [SourceName |-> TableOrder[1], Range |-> 1,
                text |-> <<Stmt("HEADER", <<"less">>), Stmt("INSERT", RowA)>>]

\* task rows and chunk rows an earlier run can have left: a table has no
\* row, or is wait, part or done; only a part table has chunk rows, and it
\* has none when the rows were lost
InitGateMeta ==
  /\ waitSyncMeta \in [Tables -> {"none", "wait", "part", "done"}]
  /\ \E left \in [Tables -> {{}, {1}}] :
       /\ \A t \in Tables : (left[t] # {}) => (waitSyncMeta[t] = "part")
       /\ dataDiffMeta = {ChunkRow(tc[1], tc[2], 1) :
                            tc \in {x \in Tables \X Ranges : x[2] \in left[x[1]]}}
  /\ tableErrorDetail \in
       {{}, {ErrorRecord(TableOrder[1], 1, "data diff record report failed")}}

\* what the run finds: the upstream version, character set and NLS
\* settings are supported or not, the structure check (which the
\* configuration asks for) finds a difference or not, the work set is
\* empty, one table or every table
InitEnv ==
  /\ cfg \in [EnableCheckpoint : BOOLEAN, OnlyCheckRows : {FALSE},
               IgnoreStructCheck : {FALSE}]
  /\ \E e \in [version : BOOLEAN, charset : BOOLEAN, nls : BOOLEAN,
                struct : BOOLEAN,
                tables : {<<>>, <<TableOrder[1]>>, TableOrder}] :
       env = [version |-> e.version, tables |-> e.tables,
              charset |-> e.charset, nls |-> e.nls, struct |-> e.struct,
              meta0 |-> waitSyncMeta, file0 |-> fixSqlFile,
              errors0 |-> tableErrorDetail]
  /\ failure = "none"
  /\ runNo = 1

\* OracleDiffMySQLTable is called
InitCall ==
  /\ pc = "GetOracleDBVersion"
  /\ isCheckpoint = TRUE
  /\ partSyncTableInfo = <<>>
  /\ waitSyncTableInfo = <<>>
  /\ diffs = <<>>
  /\ dIdx = 1
  /\ diffMetas = <<>>
  /\ spawned = 0
  /\ drain = "none"
  /\ wpc = [c \in Ranges |-> "idle"]
  /\ gErr = NoErr
  /\ err = NoErr
  /\ reportResCh = <<>>
  /\ chClosed = FALSE
  /\ closer = "none"
  /\ oraChan = EmptyFetch
  /\ mysqlChan = EmptyFetch
  /\ panicked = "none"
  /\ faults = 0
  /\ writes = 0
  /\ InitPlan
  /\ planned = {}
  /\ compared = [t \in Tables |-> [c \in Ranges |-> 0]]
  /\ produced = {}
  /\ skipped = {}
  /\ persisted = dataDiffMeta

InitGate ==
  /\ diffThreads = 1
  /\ InitGateMeta
  /\ oracleData = [t \in Tables |-> [c \in Ranges |-> IF c = 1 THEN {RowA} ELSE {RowB}]]
  /\ oracleAsOf = <<oracleData>>
  /\ mysqlData = [t \in Tables |-> [c \in Ranges |-> MysqlRows]]
  /\ mysqlTables \in {Tables, Tables \ {TableOrder[Len(TableOrder)]}}
  /\ fixSqlFile = <<OldFragment>>
  /\ InitEnv
  /\ InitCall
  /\ InitCRCIdle

Preflight ==
  \/ GetOracleDBVersion
  \/ GenerateTables
  \/ GetTableErrorDetailCountByMode
  \/ InitWaitSyncTableMetaRecord
  \/ TruncateDataDiffMetaRecord
  \/ GetWaitSyncTableMetaRecord
  \/ JudgingCheckpointResume
  \/ GetOracleDBCharacterSet
  \/ GetOracleDBCharacterNLSSortCollation
  \/ OpenFile

\* OracleDiffMySQLTable: the pre-flight steps, then StartTableDiff
NextGate ==
  \/ Preflight
  \/ Next

SpecGate == InitGate /\ [][NextGate]_vars

\* ------------------------------------------------------------- SpecRerun
RECURSIVE ApplyText(_, _)
\* the rows of a chunk after the statements of text ran on the downstream:
\* a DELETE removes the row its WHERE names, an INSERT adds its row, a
\* comment does nothing
ApplyText(rows, text) ==
  IF text = <<>> THEN rows
  ELSE LET st == Head(text)
           next == IF st.kind = "DELETE" THEN rows \ {st.row}
                   ELSE IF st.kind = "INSERT" THEN rows \cup {st.row}
                   ELSE rows
       IN  ApplyText(next, Tail(text))

RECURSIVE ApplyScript(_, _)
\* the downstream after the fragments of the repair file ran in file order
ApplyScript(data, file) ==
  IF file = <<>> THEN data
  ELSE LET f == Head(file)
       IN  ApplyScript([data EXCEPT ![f.SourceName][f.Range] = ApplyText(@, f.text)],
                       Tail(file))

\* the run returned nil; the operator runs the repair file on the
\* downstream and calls OracleDiffMySQLTable again, checkpointing enabled or
\* not, in a new process
ApplyAndRerun ==
  /\ panicked = "none" /\ pc = "returned"
  /\ runNo = 1
  /\ runNo' = 2
  /\ mysqlData' = ApplyScript(mysqlData, fixSqlFile)
  /\ \E b \in BOOLEAN : cfg' = [cfg EXCEPT !.EnableCheckpoint = b]
  /\ env' = [env EXCEPT !.meta0 = waitSyncMeta, !.file0 = fixSqlFile,
                        !.errors0 = tableErrorDetail]
  /\ failure' = "none"
  /\ pc' = "GetOracleDBVersion"
  /\ oraChan' = EmptyFetch
  /\ mysqlChan' = EmptyFetch
  /\ globalSCN' = 0
  /\ ppc' = [t \in Tables |-> "idle"]
  /\ splitErr' = NoErr
  /\ gPlanErr' = NoErr
  /\ planned' = {}
  /\ compared' = [t \in Tables |-> [c \in Ranges |-> 0]]
  /\ produced' = {}
  /\ skipped' = {}
  /\ persisted' = dataDiffMeta
  /\ UNCHANGED <<isCheckpoint, diffs, dIdx, diffThreads, partSyncTableInfo,
                 waitSyncTableInfo, crcIn, crcOut, ddlVars, groupVars, metaVars,
                 oracleData, oracleAsOf, mysqlTables, writes, fixSqlFile,
                 panicked, faults>>

\* a first run over tables that were never compared, in an environment
\* that passes every pre-flight check; the two sides differ, if at all, in
\* the rows of the first range, which every split of a table covers
InitRerun ==
  /\ diffThreads \in 1..MaxThreads
  /\ waitSyncMeta = [t \in Tables |-> "none"]
  /\ dataDiffMeta = {}
  /\ tableErrorDetail = {}
  /\ \E rows \in OraCases :
       oracleData = [t \in Tables |->
                      [c \in Ranges |-> IF c = 1 THEN rows ELSE MysqlRows]]
  /\ oracleAsOf = <<oracleData>>
  /\ mysqlData = [t \in Tables |-> [c \in Ranges |-> MysqlRows]]
  /\ mysqlTables = Tables
  /\ fixSqlFile = <<>>
  /\ \E b \in BOOLEAN :
       cfg = [EnableCheckpoint |-> b, OnlyCheckRows |-> FALSE,
              IgnoreStructCheck |-> TRUE]
  /\ env = [version |-> TRUE, tables |-> TableOrder, charset |-> TRUE,
            nls |-> TRUE, struct |-> TRUE, meta0 |-> waitSyncMeta,
            file0 |-> fixSqlFile, errors0 |-> tableErrorDetail]
  /\ failure = "none"
  /\ runNo = 1
  /\ InitCall
  /\ InitCRCIdle

NextRerun ==
  \/ NextGate
  \/ ApplyAndRerun

SpecRerun == InitRerun /\ [][NextRerun]_vars

\* ------------------------------------------------------------- SpecModes
\* upstream rows of a range: the downstream's, one row more, one row less
ModeCases == {{RowB}, {RowA, RowB}, {}}

\* StartTableDiff over one table, wait or part, in CRC mode or Rows mode
InitModes ==
  /\ diffThreads \in 1..MaxThreads
  /\ \E st \in {"wait", "part"}, left \in (SUBSET Ranges) \ {{}} :
       /\ waitSyncMeta = [t \in Tables |-> IF t = TableOrder[1] THEN st ELSE "done"]
       /\ dataDiffMeta = IF st = "part"
                         THEN {ChunkRow(TableOrder[1], c, 1) : c \in left}
                         ELSE {}
       /\ st = "wait" => left = Ranges
  /\ tableErrorDetail = {}
  /\ \E d \in [Ranges -> ModeCases] : oracleData = [t \in Tables |-> d]
  /\ oracleAsOf = <<oracleData>>
  /\ mysqlData = [t \in Tables |-> [c \in Ranges |-> MysqlRows]]
  /\ mysqlTables = Tables
  /\ InitRun
  /\ \E b \in BOOLEAN :
       cfg = [EnableCheckpoint |-> TRUE, OnlyCheckRows |-> b,
              IgnoreStructCheck |-> TRUE]
  /\ env = [version |-> TRUE, tables |-> TableOrder, charset |-> TRUE,
            nls |-> TRUE, struct |-> TRUE, meta0 |-> waitSyncMeta,
            file0 |-> <<>>, errors0 |-> tableErrorDetail]
  /\ failure = "none"
  /\ runNo = 1
  /\ InitCRCIdle

SpecModes == InitModes /\ [][Next]_vars

\* ---------------------------------------------------------- SpecSnapshot
\* the upstream is written while the run is under way
UpstreamWrite ==
  /\ Alive
  /\ writes < MaxWrites
  /\ \E t \in Tables, c \in Ranges, rows \in OraCases :
       /\ rows # oracleData[t][c]
       /\ waitSyncMeta[t] # "done"
       /\ oracleData' = [oracleData EXCEPT ![t][c] = rows]
  /\ oracleAsOf' = Append(oracleAsOf, oracleData')
  /\ writes' = writes + 1
  /\ UNCHANGED <<loopVars, mysqlData, mysqlTables, cfgVars, groupVars,
                 fetchVars, metaVars, ghostVars, fixSqlFile, panicked, faults>>

\* a fresh run over one wait table
InitSnapshot ==
  /\ diffThreads \in 1..MaxThreads
  /\ waitSyncMeta = [t \in Tables |-> IF t = TableOrder[1] THEN "wait" ELSE "done"]
  /\ dataDiffMeta = {}
  /\ tableErrorDetail = {}
  /\ InitData
  /\ mysqlTables = Tables
  /\ InitRun
  /\ InitPassed
  /\ InitCRCIdle

NextSnapshot ==
  \/ Next
  \/ UpstreamWrite

SpecSnapshot == InitSnapshot /\ [][NextSnapshot]_vars

\* -------------------------------------------------------------- SpecFair
\* the steps of the goroutine that runs StartTableDiff
Coordinator ==
  \/ EnterPart
  \/ EnterWait
  \/ PreDiffCheck
  \/ PreSplitChunk
  \/ GoSplitChunk
  \/ PlanWait
  \/ LoopHead
  \/ Spawn
  \/ GWait

\* the steps of the worker of chunk c
Worker(c) ==
  \/ ReportJoin(c)
  \/ Send(c)
  \/ LogReportErr(c)
  \/ DeleteDataDiffMeta(c)
  \/ CheckDeleteErr(c)
  \/ LogDeleteErr(c)
  \/ CheckCreateErr(c)
  \/ Close(c)

\* the steps of the drain
Drain ==
  \/ DrainWrite
  \/ DrainExit

\* the Go scheduler runs every goroutine that can take a step
Fairness ==
  /\ WF_vars(Coordinator)
  /\ WF_vars(Drain)
  /\ \A c \in Ranges : WF_vars(Worker(c))
  /\ \A t \in Tables : WF_vars(SplitChunkTask(t) \/ CheckSplitErr(t))
  /\ \A t \in Tables, c \in Ranges :
       WF_vars(OraFetchDone(t, c)) /\ WF_vars(MySQLFetchDone(t, c))

\* a fresh run over one wait table, every goroutine scheduled fairly
SpecFair == InitSnapshot /\ [][Next]_vars /\ Fairness

\* --------------------------------------------------------------- SpecCRC
\* reportCheckCRC32 applied to the DBSummary pairs the two adapters can
\* hand it: any row sets and any CRC values
InitCRC ==
  /\ diffThreads = 1
  /\ waitSyncMeta = [t \in Tables |-> "done"]
  /\ dataDiffMeta = {}
  /\ tableErrorDetail = {}
  /\ oracleData = [t \in Tables |-> [c \in Ranges |-> {}]]
  /\ oracleAsOf = <<oracleData>>
  /\ mysqlData = oracleData
  /\ mysqlTables = Tables
  /\ InitRun
  /\ InitPassed
  /\ \E U \in SUBSET Rows, D \in SUBSET Rows, cu \in CrcVals, cd \in CrcVals :
       crcIn = <<DBSummary(Columns, U, cu), DBSummary(Columns, D, cd)>>
  /\ crcOut = <<>>
  /\ InitDDLIdle

ApplyCRC ==
  /\ crcIn # <<>>
  /\ crcOut = <<>>
  /\ crcOut' = <<reportCheckCRC32(crcIn[1], crcIn[2])>>
  /\ UNCHANGED <<loopVars, dbVars, runCfgVars, crcIn, groupVars, fetchVars, metaVars,
                 ghostVars, fixSqlFile, panicked, faults>>

NextCRC == ApplyCRC

SpecCRC == InitCRC /\ [][NextCRC]_vars

\* --------------------------------------------------------------- SpecDDL
\* a SQL text is the sequence of its parts; the empty string is <<>>
Sql(kind, body) == [kind |-> kind, body |-> body]

\* the DDL values d.Write is applied to: with or without keys, table
\* comment, foreign keys, check keys and other compatibility DDL
DDLs ==
  [SourceTableDDL : {"CREATE TABLE S.T"},
   TableColumns : {<<"c1 INT">>},
   TableKeys : {<<>>, <<"PRIMARY KEY (c1)">>},
   TableSuffix : {"ENGINE=InnoDB"},
   TableComment : {"", "COMMENT='t'"},
   TableForeignKeys : {<<>>, <<"FOREIGN KEY (c1)">>},
   TableCheckKeys : {<<>>, <<"CHECK (c1 > 0)">>},
   TableCompatibleDDL : {<<>>, <<Sql("COMPATIBLE", <<"CREATE INDEX">>)>>}]

\* how the writes on w end: r is the write of the reverse DDL (RWriteFile
\* or RWriteDB), c the write of the compatibility DDL (CWriteFile)
WriteOutcomes == [r : BOOLEAN, c : BOOLEAN]

\* "ALTER TABLE ... ADD <key>;" for every key of keys
AlterTableAdd(keys) ==
  [i \in 1..Len(keys) |-> Sql("ALTER TABLE ADD", <<keys[i]>>)]

\* d.GenDDLStructure(): the CREATE TABLE statement, and the foreign keys,
\* check keys and compatible DDL that the downstream may not support
GenDDLStructure(d) ==
  [reverseDDLS |->
     <<Sql("CREATE TABLE",
           d.TableColumns \o d.TableKeys \o <<d.TableSuffix>> \o
           (IF d.TableComment = "" THEN <<>> ELSE <<d.TableComment>>))>>,
   compDDLS |-> AlterTableAdd(d.TableForeignKeys) \o
                AlterTableAdd(d.TableCheckKeys) \o d.TableCompatibleDDL]

\* sqlComp of WriteFile and WriteDB: empty without compatibility DDL, else
\* a comment and the statements
SqlComp(compDDLS) ==
  IF Len(compDDLS) > 0
  THEN <<Sql("COMMENT", <<"maybe tidb has compatibility, skip">>)>> \o compDDLS
  ELSE <<>>

\* a write of sql attempted on sink, and whether it succeeded
Attempt(sink, sql, ok) == [sink |-> sink, sql |-> sql, ok |-> ok]

\* WriteBoth with a fault: a failed write of sqlRev does not end the
\* function; sqlComp is written all the same
WriteBothKeepsGoing(revSink, sqlRev, sqlComp, w) ==
  LET log == IF sqlRev # <<>> THEN <<Attempt(revSink, sqlRev, w.r)>> ELSE <<>>
  IN  IF sqlComp # <<>> /\ ~w.c
      THEN [errSql |-> sqlComp, err |-> "compatibility write failed",
            log |-> Append(log, Attempt("CWriteFile", sqlComp, FALSE))]
      ELSE [errSql |-> IF sqlRev # <<>> /\ ~w.r THEN sqlRev ELSE <<>>,
            err |-> IF sqlRev # <<>> /\ ~w.r THEN "reverse write failed"
                    ELSE NoErr,
            log |-> IF sqlComp # <<>>
                    THEN Append(log, Attempt("CWriteFile", sqlComp, TRUE))
                    ELSE log]

\* the data-write part of WriteFile and WriteDB: sqlRev goes to revSink;
\* sqlComp goes to CWriteFile unless that write failed; the SQL of a failed
\* write is returned with its error
WriteBoth(revSink, sqlRev, sqlComp, w) ==
  IF sqlRev # <<>> /\ ~w.r
  THEN [errSql |-> sqlRev, err |-> "reverse write failed",
        log |-> <<Attempt(revSink, sqlRev, FALSE)>>]
  ELSE LET log == IF sqlRev # <<>> THEN <<Attempt(revSink, sqlRev, TRUE)>>
                  ELSE <<>>
       IN  IF sqlComp # <<>> /\ ~w.c
           THEN [errSql |-> sqlComp, err |-> "compatibility write failed",
                 log |-> Append(log, Attempt("CWriteFile", sqlComp, FALSE))]
           ELSE [errSql |-> <<>>, err |-> NoErr,
                 log |-> IF sqlComp # <<>>
                         THEN Append(log, Attempt("CWriteFile", sqlComp, TRUE))
                         ELSE log]

\* d.WriteFile(w): sqlRev is a comment with the origin DDL, then the
\* reverse DDL
WriteFile(d, w) ==
  LET g == GenDDLStructure(d)
  IN  WriteBoth("RWriteFile",
                <<Sql("COMMENT", <<"oracle table reverse sql", d.SourceTableDDL>>)>>
                  \o g.reverseDDLS,
                SqlComp(g.compDDLS), w)

\* d.WriteDB(w): sqlRev is the reverse DDL alone and goes to the database;
\* sqlComp still goes to the compatibility file
WriteDB(d, w) ==
  LET g == GenDDLStructure(d)
  IN  WriteBoth("RWriteDB", g.reverseDDLS, SqlComp(g.compDDLS), w)

\* d.Write(w): WriteDB when DirectWrite is set, else WriteFile; the error
\* and its SQL are handed on, else "", nil
Write ==
  /\ ddlIn # <<>>
  /\ ddlOut = <<>>
  /\ \E w \in WriteOutcomes :
       LET r == IF ddlIn[1].DirectWrite THEN WriteDB(ddlIn[1].d, w)
                ELSE WriteFile(ddlIn[1].d, w)
       IN  /\ ddlOut' = <<IF r.err # NoErr
                          THEN [errSql |-> r.errSql, err |-> r.err]
                          ELSE [errSql |-> <<>>, err |-> NoErr]>>
           /\ ddlLog' = r.log
  /\ UNCHANGED <<loopVars, dbVars, diffThreads, partSyncTableInfo,
                 waitSyncTableInfo, gateVars, planVars, crcIn, crcOut, ddlIn,
                 groupVars, fetchVars, metaVars, ghostVars, fixSqlFile,
                 panicked, faults>>

\* d.Write(w) is called on some DDL, DirectWrite set or not; no diff runs
InitDDL ==
  /\ diffThreads = 1
  /\ waitSyncMeta = [t \in Tables |-> "done"]
  /\ dataDiffMeta = {}
  /\ tableErrorDetail = {}
  /\ oracleData = [t \in Tables |-> [c \in Ranges |-> {}]]
  /\ oracleAsOf = <<oracleData>>
  /\ mysqlData = oracleData
  /\ mysqlTables = Tables
  /\ InitRun
  /\ InitPassed
  /\ crcIn = <<>>
  /\ crcOut = <<>>
  /\ \E d \in DDLs, b \in BOOLEAN : ddlIn = <<[d |-> d, DirectWrite |-> b]>>
  /\ ddlLog = <<>>
  /\ ddlOut = <<>>

NextDDL == Write

SpecDDL == InitDDL /\ [][NextDDL]_vars

\* ============================================================ properties
RowGone(t, c) ==
  ~ \E m \in dataDiffMeta : m.SourceTableName = t /\ m.Range = c

\* results of chunk (t, c) written to the repair file
Written(t, c) ==
  Cardinality({i \in 1..Len(fixSqlFile) :
                 fixSqlFile[i].SourceName = t /\ fixSqlFile[i].Range = c})

Queued(t, c) ==
  \E i \in 1..Len(reportResCh) :
     reportResCh[i].SourceName = t /\ reportResCh[i].Range = c

Ended == panicked # "none" \/ pc = "returned"

PartTables == SeqToSet(partSyncTableInfo)
WaitTables == SeqToSet(waitSyncTableInfo)

\* C1: the result channel of a table is closed once, by the spawner, after
\* every worker of the table has finished; no worker closes it a second
\* time and none sends on it after the close.
C1_ClosedOnceBySpawner ==
  /\ panicked \notin {"close of closed channel", "send on closed channel"}
  /\ chClosed =>
       /\ closer = "spawner"
       /\ spawned = Len(diffMetas)
       /\ \A c \in Ranges : ~Running(c)

\* C2: a chunk row is deleted only after the chunk's result has been
\* written to the repair file: no chunk with a result has its row deleted
\* while the result is still queued or unwritten.
C2_DeletedOnlyAfterWritten ==
  \A tc \in produced : RowGone(tc[1], tc[2]) => Written(tc[1], tc[2]) >= 1

\* C3: a chunk whose comparison failed has a Failed record and keeps its
\* row in data_diff_meta.
C3_FailedChunkSurvives ==
  \A t \in Tables, c \in Ranges :
     ErrorRecord(t, c, "data diff record report failed") \in tableErrorDetail
       => ~RowGone(t, c)

\* C4: when g.Wait returns an error the table is not marked done and the
\* loop goes on to the next table.
C4_SkipOnGroupError ==
  /\ [](\A t \in skipped : waitSyncMeta[t] # "done")
  /\ [][(InTable /\ spawned = Len(diffMetas) /\ Active = 0 /\ gErr # NoErr
           /\ pc' # pc)
        => (/\ pc' = "loop"
            /\ dIdx' = dIdx + 1
            /\ waitSyncMeta' = waitSyncMeta
            /\ CurTable \in skipped')]_vars

\* a table was skipped for its group's error and a chunk of a later table
\* of the same loop was compared
C4_NextTableCompared ==
  \E i \in 1..Len(diffs), j \in 1..Len(diffs), c \in Ranges :
     /\ i < j
     /\ diffs[i] \in skipped
     /\ waitSyncMeta[diffs[i]] # "done"
     /\ compared[diffs[j]][c] > 0

\* C5: part tables come before wait tables, are never planned, have exactly
\* their persisted chunk rows compared, once each, and end done when the
\* run meets no failure.
C5_ResumeEndsDone ==
  /\ PartTables \cap planned = {}
  /\ \A t \in PartTables, c \in Ranges :
       /\ compared[t][c] <= 1
       /\ compared[t][c] = 1 => \E m \in persisted :
                                   m.SourceTableName = t /\ m.Range = c
  /\ (\E t \in WaitTables, c \in Ranges : compared[t][c] > 0) =>
       \A m \in persisted : compared[m.SourceTableName][m.Range] = 1
  /\ (faults = 0 /\ Ended) =>
       \A t \in PartTables : waitSyncMeta[t] = "done"

\* C6: the adapter queries in flight for the table being compared never
\* exceed 2 x diff_threads.
C6_WorkerBound ==
  InTable =>
    Cardinality({c \in Ranges : oraChan[CurTable][c].st = "run"}) +
    Cardinality({c \in Ranges : mysqlChan[CurTable][c].st = "run"})
      <= 2 * diffThreads

\* C7: the repair file receives one result for a chunk whose sides differ
\* and none for an equal chunk; no result is written twice and none that
\* was produced is lost.
C7_ExactlyOneFragment ==
  \A t \in Tables, c \in Ranges :
     /\ Written(t, c) <= 1
     /\ Written(t, c) = 1 => oracleData[t][c] # mysqlData[t][c]
     /\ (faults = 0 /\ Ended /\ <<t, c>> \in produced) => Written(t, c) = 1

\* statements of kind k for row r in fixSQL f
StmtCount(f, k, r) ==
  Cardinality({i \in 1..Len(f) : f[i].kind = k /\ f[i].row = r})

ExactDiff(f, U, D) ==
  \A r \in Rows :
     /\ StmtCount(f, "INSERT", r) = IF r \in U \ D THEN 1 ELSE 0
     /\ StmtCount(f, "DELETE", r) = IF r \in D \ U THEN 1 ELSE 0

\* C8 (as claimed): for upstream rows U and downstream rows D the fragment
\* has one INSERT per row of U \ D and one DELETE per row of D \ U.
C8_SymmetricDiff ==
  crcOut # <<>> =>
    ExactDiff(crcOut[1].fixSQL, crcIn[1].StringSet, crcIn[2].StringSet)

\* C8 (amended): that holds when the two CRC values differ and every
\* downstream-extra row has as many values as the downstream has columns;
\* otherwise no statement is emitted.
C8_SymmetricDiffAmended ==
  crcOut # <<>> =>
    LET U == crcIn[1].StringSet
        D == crcIn[2].StringSet
    IN  IF /\ crcIn[1].Crc32Val # crcIn[2].Crc32Val
           /\ \A r \in D \ U : Len(r) = Len(crcIn[2].Columns)
        THEN ExactDiff(crcOut[1].fixSQL, U, D)
        ELSE crcOut[1].fixSQL = <<>> /\ ~crcOut[1].push

\* a fragment with both an INSERT and a DELETE was built
C8_BothSidesExtra ==
  /\ crcOut # <<>>
  /\ crcOut[1].push
  /\ crcIn[1].StringSet \ crcIn[2].StringSet # {}
  /\ crcIn[2].StringSet \ crcIn[1].StringSet # {}
  /\ crcIn[1].StringSet \cap crcIn[2].StringSet # {}

\* C9: within one fragment every DELETE precedes every INSERT.
C9_DeleteBeforeInsert ==
  crcOut # <<>> =>
    LET f == crcOut[1].fixSQL
    IN  \A i \in 1..Len(f), j \in 1..Len(f) :
           (f[i].kind = "DELETE" /\ f[j].kind = "INSERT") => i < j

\* a fragment with two DELETEs and an INSERT was built
C9_MixedFragment ==
  /\ crcOut # <<>>
  /\ \E r \in Rows : StmtCount(crcOut[1].fixSQL, "INSERT", r) = 1
  /\ Cardinality({r \in Rows : StmtCount(crcOut[1].fixSQL, "DELETE", r) = 1}) = 2

\* C10: every upstream fetch of a chunk returns the upstream rows as of the
\* chunk's snapshot token.
C10_ReadsAsOfSnapshot ==
  InTable =>
    \A i \in 1..Len(diffMetas) :
       LET m == diffMetas[i]
           f == oraChan[CurTable][m.Range]
       IN  f.st = "ok" =>
             f.sum.StringSet = oracleAsOf[m.SnapshotSCN][CurTable][m.Range]

\* the run has changed nothing: task rows, chunk rows, error records and
\* the repair file are as it found them, nothing was planned or compared
NothingChanged ==
  /\ waitSyncMeta = env.meta0
  /\ dataDiffMeta = persisted
  /\ tableErrorDetail = env.errors0
  /\ fixSqlFile = env.file0
  /\ planned = {}
  /\ \A t \in Tables, c \in Ranges : compared[t][c] = 0

\* C11 (as claimed): when a Failed record exists as the run starts,
\* OracleDiffMySQLTable changes nothing and does not return nil.
C11_RefusesOnPriorFailed ==
  env.errors0 # {} => (NothingChanged /\ pc # "returned")

\* C11 (amended): when a Failed record exists as the run starts, the run
\* changes nothing; with a non-empty work set it never returns nil and never
\* gets past the check of the error records, and with an empty work set it
\* returns nil before that check.
C11_RefusesOnPriorFailedAmended ==
  env.errors0 # {} =>
    /\ NothingChanged
    /\ pc \in {"GetOracleDBVersion", "GenerateTables",
               "GetTableErrorDetailCountByMode", "failed", "returned"}
    /\ pc = "returned" => Len(env.tables) = 0
    /\ failure = "exist failed error" => Len(env.tables) > 0

\* the run was refused for the Failed records it found, with a table that
\* had no task row, a part table with a chunk row and a repair file in place
C11_Refused ==
  /\ pc = "failed"
  /\ failure = "exist failed error"
  /\ env.errors0 # {}
  /\ \E t \in Tables : waitSyncMeta[t] = "none"
  /\ dataDiffMeta # {}
  /\ fixSqlFile # <<>>

\* the pre-flight steps between the reset and the call of StartTableDiff
AfterReset ==
  pc \in {"GetWaitSyncTableMetaRecord", "JudgingCheckpointResume",
          "GetOracleDBCharacterSet", "GetOracleDBCharacterNLSSortCollation",
          "OpenFile", "callPart"}

\* C12: with enable_checkpoint = false, once the reset step is done and
\* before anything is planned or compared, every table of the work set has
\* its task row with status wait and data_diff_meta holds no chunk row.
C12_ResetWipesState ==
  (~cfg.EnableCheckpoint /\ AfterReset) =>
    /\ \A t \in SeqToSet(env.tables) : waitSyncMeta[t] = "wait"
    /\ dataDiffMeta = {}
    /\ planned = {}
    /\ \A t \in Tables, c \in Ranges : compared[t][c] = 0

\* the reset has run over a work set with a done table and a part table
\* that had a chunk row
C12_ResetDone ==
  /\ ~cfg.EnableCheckpoint
  /\ pc = "GetWaitSyncTableMetaRecord"
  /\ \E t \in SeqToSet(env.tables) : env.meta0[t] = "done"
  /\ \E t \in SeqToSet(env.tables) : env.meta0[t] = "part"
  /\ persisted # {}

\* the table list the running startTableDiffCheck hands to PreDiffCheck
CheckedTables == IF isCheckpoint THEN partSyncTableInfo ELSE waitSyncTableInfo

\* the pre-flight check named e finds nothing wrong
Passes(e) ==
  CASE e = "oracle db version" -> env.version
    [] e = "character set" -> env.charset
    [] e = "nls sort / nls comp" -> env.nls
    [] e = "exist failed error" -> env.errors0 = {}
    [] e = "table isn't exists" -> FilterDifferenceStringItems(CheckedTables) = {}
    [] e = "struct isn't equal" -> cfg.IgnoreStructCheck \/ env.struct

\* the checks that come before f in order
Before(order, f) ==
  {order[i] : i \in 1..((CHOOSE j \in 1..Len(order) : order[j] = f) - 1)}

\* the failure the run reports is the first check of order that fails
FirstFailing(order) ==
  failure \in SeqToSet(order) =>
    /\ ~Passes(failure)
    /\ \A e \in Before(order, failure) : Passes(e)

ClaimedOrder == <<"oracle db version", "character set", "nls sort / nls comp",
                  "exist failed error", "table isn't exists",
                  "struct isn't equal">>

CodeOrder == <<"oracle db version", "exist failed error", "character set",
               "nls sort / nls comp", "table isn't exists",
               "struct isn't equal">>

\* C20 (as claimed): a run that fails a pre-flight check reports the first
\* failing check in the order version, character set, NLS, prior Failed
\* records, downstream existence, structure check.
C20_GateOrder == FirstFailing(ClaimedOrder)

\* C20 (amended): the order is version, prior Failed records, character
\* set, NLS, then downstream existence and structure check of the table
\* list about to be compared; the reported failure is the first failing
\* check in that order, and StartTableDiff is reached only when the first
\* four checks pass.
C20_GateOrderAmended ==
  /\ FirstFailing(CodeOrder)
  /\ pc \in {"callPart", "callWait", "PreDiffCheck", "PreSplitChunk",
             "GoSplitChunk", "loop", "spawn"} =>
       \A i \in 1..4 : Passes(CodeOrder[i])

\* the run was refused for its Failed records while the character set is
\* unsupported too
C20_FailedBeforeCharset ==
  /\ pc = "failed"
  /\ failure = "exist failed error"
  /\ ~env.charset
  /\ ~env.nls

\* C13: after a run that returned nil, with the repair file applied to the
\* downstream and no upstream write, a re-run that meets no failure leaves
\* an empty repair file, with checkpointing enabled and with it disabled.
C13_RerunLeavesEmptyFile ==
  (runNo = 2 /\ faults = 0 /\ Ended) => fixSqlFile = <<>>

\* C14: once a write to the repair file has failed the run compares no
\* further table and does not return nil: it waits for the table's group
\* and fails.
C14_WriteFailureFatal ==
  gErr = "fix sql file write failed" => pc \in {"spawn", "failed"}

\* C15: the adapter queries in flight at any time all belong to one table.
C15_TablesSerial ==
  \A x \in Fetching(oraChan) \cup Fetching(mysqlChan),
     y \in Fetching(oraChan) \cup Fetching(mysqlChan) : x[1] = y[1]

\* both fetches of chunk (t, c) returned and their CRC values are equal
EqualCrc(t, c) ==
  /\ oraChan[t][c].st = "ok"
  /\ mysqlChan[t][c].st = "ok"
  /\ oraChan[t][c].sum.Crc32Val = mysqlChan[t][c].sum.Crc32Val

\* (t, c) is the only chunk of t
OnlyChunk(t, c) ==
  \A c2 \in Ranges \ {c} : compared[t][c2] = 0 /\ RowGone(t, c2)

\* the loop of the running startTableDiffCheck is past table t
Finished(t) == \E i \in 1..Len(diffs) : diffs[i] = t /\ i < dIdx

\* C16: in CRC mode, when the two fetches of a chunk return equal CRC
\* values, Report returns no error and pushes nothing, the worker goes on to
\* delete the chunk row, and a single-chunk table with equal sides ends
\* done with nothing written for it.
C16_EqualCrcNoFragment ==
  \A t \in Tables, c \in Ranges :
     (~cfg.OnlyCheckRows /\ EqualCrc(t, c)) =>
       /\ <<t, c>> \notin produced
       /\ ~Queued(t, c)
       /\ Written(t, c) = 0
       /\ ErrorRecord(t, c, "data diff record report failed") \notin tableErrorDetail
       /\ (InTable /\ t = CurTable) =>
            /\ wpc[c] \notin {"Send", "LogReportErr"}
            /\ (faults = 0 /\ wpc[c] \in {"Close", "done"}) => RowGone(t, c)
       /\ (faults = 0 /\ OnlyChunk(t, c) /\ Finished(t)) =>
            /\ waitSyncMeta[t] = "done"
            /\ RowGone(t, c)

\* a single-chunk table with equal CRC values was compared and is done,
\* and the repair file is empty
C16_EqualTableDone ==
  \E t \in Tables, c \in Ranges :
     /\ EqualCrc(t, c)
     /\ oraChan[t][c].sum.StringSet = mysqlChan[t][c].sum.StringSet
     /\ compared[t][c] = 1
     /\ OnlyChunk(t, c)
     /\ Finished(t)
     /\ waitSyncMeta[t] = "done"
     /\ RowGone(t, c)
     /\ fixSqlFile = <<>>

\* C17: in Rows mode a result is pushed exactly when the two counts differ;
\* it carries both counts and the range and no SQL; the drain writes for it
\* the comment and the table of the two counts, no statement; and the table
\* whose chunk was reported ends done when the run meets no failure.
C17_RowsModeSummary ==
  cfg.OnlyCheckRows =>
    /\ \A c \in Ranges :
         (InTable /\ wpc[c] \notin {"idle", "Report", "LogReportErr"}
            /\ oraChan[CurTable][c].st = "ok" /\ mysqlChan[CurTable][c].st = "ok") =>
           (<<CurTable, c>> \in produced <=>
              oraChan[CurTable][c].sum.Rows # mysqlChan[CurTable][c].sum.Rows)
    /\ \A i \in 1..Len(reportResCh) :
         LET r == reportResCh[i]
         IN  /\ r.SourceRows = <<oraChan[r.SourceName][r.Range].sum.Rows>>
             /\ r.TargetRows = <<mysqlChan[r.SourceName][r.Range].sum.Rows>>
             /\ r.CRC32Result = <<>>
    /\ \A i \in 1..Len(fixSqlFile) :
         LET f == fixSqlFile[i]
         IN  /\ Len(f.text) = 2
             /\ f.text[1].kind = "COMMENT"
             /\ f.text[2] = Stmt("TABLE",
                  <<ToString(oraChan[f.SourceName][f.Range].sum.Rows),
                    ToString(mysqlChan[f.SourceName][f.Range].sum.Rows)>>)
    /\ \A tc \in produced :
         (faults = 0 /\ Ended) => waitSyncMeta[tc[1]] = "done"

\* some downstream-extra row of crcIn has a number of values other than the
\* number of downstream columns
BadExtraRow ==
  \E r \in crcIn[2].StringSet \ crcIn[1].StringSet :
     Len(r) # Len(crcIn[2].Columns)

\* C18 (as claimed): when some downstream-extra row has a value count other
\* than the downstream column count, reportCheckCRC32 returns an error and
\* pushes nothing.
C18_ColumnMismatchFails ==
  (crcOut # <<>> /\ BadExtraRow) =>
    (crcOut[1].err /\ ~crcOut[1].push /\ crcOut[1].fixSQL = <<>>)

\* C18 (amended): that holds when the two CRC values differ; with equal CRC
\* values reportCheckCRC32 returns nil before it looks at the rows, and
\* pushes nothing either.
C18_ColumnMismatchFailsAmended ==
  (crcOut # <<>> /\ BadExtraRow) =>
    /\ ~crcOut[1].push
    /\ crcOut[1].fixSQL = <<>>
    /\ crcOut[1].err <=> (crcIn[1].Crc32Val # crcIn[2].Crc32Val)

\* reportCheckCRC32 failed on a chunk that also has a well-formed
\* downstream-extra row and an upstream-extra row
C18_FailedWithOtherRows ==
  /\ crcOut # <<>>
  /\ crcOut[1].err
  /\ BadExtraRow
  /\ \E r \in crcIn[2].StringSet \ crcIn[1].StringSet :
       Len(r) = Len(crcIn[2].Columns)
  /\ crcIn[1].StringSet \ crcIn[2].StringSet # {}

\* C19: Report leaves the join only when no fetch it waited for is still
\* running; it reads the two results only when both fetches have returned
\* one; when a fetch failed it returns the error, and nothing is produced
\* or sent.
C19_JoinBeforeRead ==
  [][\A c \in Ranges :
       (InTable /\ wpc[c] = "Report" /\ wpc'[c] # "Report") =>
         LET ora == oraChan[CurTable][c].st
             mysql == mysqlChan[CurTable][c].st
         IN  /\ ora # "run"
             /\ wpc'[c] \in {"Send", "Delete"} => (ora = "ok" /\ mysql = "ok")
             /\ (ora = "err" \/ mysql = "err") =>
                  /\ wpc'[c] = "LogReportErr"
                  /\ produced' = produced
                  /\ reportResCh' = reportResCh
             /\ ~(ora = "ok" /\ mysql = "run")]_vars

\* in Rows mode a worker returned the error of the downstream fetch, the
\* upstream fetch having succeeded
C19_DownstreamFetchFailed ==
  \E c \in Ranges :
     /\ InTable
     /\ cfg.OnlyCheckRows
     /\ wpc[c] = "LogReportErr"
     /\ oraChan[CurTable][c].st = "ok"
     /\ mysqlChan[CurTable][c].st = "err"

\* C21: when a table of the work set, part or wait, does not exist
\* downstream, the run does not return nil, no chunk of any table is
\* compared and nothing is written to the repair file.
C21_MissingTableAbortsFirst ==
  (PartTables \cup WaitTables) \ mysqlTables # {} =>
    /\ \A t \in Tables, c \in Ranges : compared[t][c] = 0
    /\ fixSqlFile = <<>>
    /\ pc # "returned"

\* statements and headers of kind k in fixSQL f
KindCount(f, k) == Cardinality({i \in 1..Len(f) : f[i].kind = k})

\* every DELETE of f precedes every INSERT of f
DeletesFirst(f) ==
  \A i \in 1..Len(f), j \in 1..Len(f) :
     (f[i].kind = "DELETE" /\ f[j].kind = "INSERT") => i < j

\* C22 (as claimed): a fragment reportCheckCRC32 pushes begins with a
\* commented header and holds after it nothing but DELETE statements
\* followed by INSERT statements.
C22_HeaderThenStatements ==
  (crcOut # <<>> /\ crcOut[1].push) =>
    LET f == crcOut[1].fixSQL
    IN  /\ f[1].kind = "HEADER"
        /\ \A i \in 2..Len(f) : f[i].kind \in {"DELETE", "INSERT"}
        /\ DeletesFirst(f)

\* C22 (amended): a pushed fragment is a DELETE block, an INSERT block, or
\* the DELETE block followed by the INSERT block; each block begins with a
\* commented header of its own ("rows are more" before the DELETEs, "rows
\* are less" before the INSERTs), so a fragment with both kinds of rows
\* carries a second header between its last DELETE and its first INSERT.
C22_HeaderThenStatementsAmended ==
  (crcOut # <<>> /\ crcOut[1].push) =>
    LET f == crcOut[1].fixSQL
    IN  /\ f[1].kind = "HEADER"
        /\ \A i \in 1..Len(f) : f[i].kind \in {"HEADER", "DELETE", "INSERT"}
        /\ DeletesFirst(f)
        /\ KindCount(f, "HEADER") =
             (IF KindCount(f, "DELETE") > 0 THEN 1 ELSE 0) +
             (IF KindCount(f, "INSERT") > 0 THEN 1 ELSE 0)
        /\ \A i \in 1..Len(f) :
             f[i].kind = "HEADER" =>
               /\ i < Len(f)
               /\ f[i + 1].kind =
                    (IF f[i].row = <<"more">> THEN "DELETE" ELSE "INSERT")
               /\ i > 1 => (f[i].row = <<"less">> /\ f[i - 1].kind = "DELETE")

\* a fragment with a DELETE and two INSERTs was pushed: it has two headers
C22_TwoBlocks ==
  /\ crcOut # <<>>
  /\ crcOut[1].push
  /\ KindCount(crcOut[1].fixSQL, "HEADER") = 2
  /\ KindCount(crcOut[1].fixSQL, "DELETE") = 1
  /\ KindCount(crcOut[1].fixSQL, "INSERT") = 2

\* the Failed record the worker of chunk (t, c) writes when Report fails
ReportFailed(t, c) == ErrorRecord(t, c, "data diff record report failed")

\* C23: a worker whose Report failed writes a Failed record naming its
\* chunk and goes on to the delete step without returning an error, or,
\* when the write of the record fails, returns an error and writes nothing;
\* once such a worker is past a delete that did not fail, the chunk row is
\* gone and the group holds no error.
C23_ReportErrorLogged ==
  /\ [](\A c \in Ranges :
          (InTable /\ faults = 1 /\ ReportFailed(CurTable, c) \in tableErrorDetail) =>
            /\ wpc[c] \in {"Delete", "CheckDeleteErr", "Close", "done"}
            /\ wpc[c] # "Delete" => RowGone(CurTable, c)
            /\ gErr = NoErr)
  /\ [][\A c \in Ranges :
          (InTable /\ wpc[c] = "LogReportErr" /\ wpc'[c] # "LogReportErr") =>
            IF faults' = faults
            THEN /\ tableErrorDetail' =
                      tableErrorDetail \cup {ReportFailed(CurTable, c)}
                 /\ ReportFailed(CurTable, c).RunStatus = "Failed"
                 /\ ReportFailed(CurTable, c).Detail = c
                 /\ wpc'[c] = "Delete"
                 /\ gErr' = gErr
                 /\ dataDiffMeta' = dataDiffMeta
            ELSE /\ tableErrorDetail' = tableErrorDetail
                 /\ wpc'[c] = "done"
                 /\ gErr' # NoErr]_vars

\* with one worker at a time: the worker of a chunk whose Report failed has
\* written its record, deleted the chunk row and returned nil, and the next
\* chunk of the table is being compared
C23_NextChunkCompared ==
  \E c \in Ranges, c2 \in Ranges :
     /\ InTable
     /\ diffThreads = 1
     /\ c # c2
     /\ ReportFailed(CurTable, c) \in tableErrorDetail
     /\ wpc[c] = "done"
     /\ RowGone(CurTable, c)
     /\ gErr = NoErr
     /\ wpc[c2] = "Report"
     /\ compared[CurTable][c2] = 1

\* the Failed record the worker of chunk (t, c) writes when its delete fails
DeleteFailed(t, c) ==
  ErrorRecord(t, c, "delete [data_diff_meta] record write failed")

\* C24: a worker acts on the outcome of its own delete.  The row of a chunk
\* is removed by that chunk's worker alone, so the row is still there exactly
\* when the worker's delete failed: a worker logs a delete failure only
\* with its row still there, goes on to the close with its row still there
\* only after it wrote the Failed record, and never finds the error gone
\* when it builds the record.
C24_OwnDeleteOutcome ==
  \A c \in Ranges :
     /\ panicked # "nil pointer dereference"
     /\ \A t \in Tables :
          DeleteFailed(t, c) \in tableErrorDetail => ~RowGone(t, c)
     /\ InTable =>
          /\ wpc[c] \in {"LogDeleteErr", "CheckCreateErr"} => ~RowGone(CurTable, c)
          /\ wpc[c] \in {"Close", "done"} =>
               \/ RowGone(CurTable, c)
               \/ DeleteFailed(CurTable, c) \in tableErrorDetail
               \/ gErr # NoErr

\* C25: the executor of a table always ends: once the group of a table is
\* set up, g.Wait eventually returns (or the process has ended).
C25_ExecutorTerminates == [](InTable => <>(~InTable))

\* C26: a table with status done has no chunk row left in data_diff_meta.
C26_DoneHasNoChunkRow ==
  \A t \in Tables :
     waitSyncMeta[t] = "done" =>
       ~ \E m \in dataDiffMeta : m.SourceTableName = t

\* PreSplitChunk has returned to startTableDiffCheck without an error
PlanReturnedNil == ~isCheckpoint /\ pc \in {"loop", "spawn", "returned"}

\* C27: PreSplitChunk returns an error exactly when the SplitChunk of some
\* table failed.  A table whose SplitChunk failed keeps status wait, so:
\* when PreSplitChunk has returned nil no wait table is left in status wait,
\* and when it returns the error of its group some wait table is.
C27_PlanErrorIffSplitFailed ==
  /\ PlanReturnedNil =>
       \A t \in WaitTables : waitSyncMeta[t] # "wait"
  /\ failure = "pre split table chunk failed" =>
       \E t \in WaitTables : waitSyncMeta[t] = "wait"

\* the sink of the reverse DDL under the configuration of ddlIn
RevSink == IF ddlIn[1].DirectWrite THEN "RWriteDB" ELSE "RWriteFile"

\* d has compatibility DDL: a foreign key, a check key or compatible DDL
HasCompDDL(d) ==
  Len(d.TableForeignKeys) + Len(d.TableCheckKeys) + Len(d.TableCompatibleDDL) > 0

\* C28: d.Write(w) writes the reverse DDL, holding the CREATE TABLE
\* statement, first and on the sink DirectWrite selects (the database when
\* set, the reverse file otherwise); it attempts the compatibility DDL
\* exactly when d has some and the reverse write succeeded, after the
\* reverse DDL; a failed write is the last one attempted and its SQL is
\* returned with the error; "" and nil are returned exactly when every
\* attempted write succeeded.
C28_WriteContract ==
  ddlOut # <<>> =>
    LET d == ddlIn[1].d
        out == ddlOut[1]
    IN  /\ Len(ddlLog) \in {1, 2}
        /\ ddlLog[1].sink = RevSink
        /\ \E i \in 1..Len(ddlLog[1].sql) : ddlLog[1].sql[i].kind = "CREATE TABLE"
        /\ Len(ddlLog) = 2 <=> (HasCompDDL(d) /\ ddlLog[1].ok)
        /\ Len(ddlLog) = 2 =>
             /\ ddlLog[2].sink = "CWriteFile"
             /\ ddlLog[2].sql # <<>>
             /\ \A i \in 1..Len(ddlLog[2].sql) :
                  ddlLog[2].sql[i].kind # "CREATE TABLE"
        /\ \A i \in 1..Len(ddlLog) :
             ~ddlLog[i].ok =>
               /\ i = Len(ddlLog)
               /\ out.err # NoErr
               /\ out.errSql = ddlLog[i].sql
        /\ (out.errSql = <<>> /\ out.err = NoErr) <=>
             (\A i \in 1..Len(ddlLog) : ddlLog[i].ok)
        /\ out.err = NoErr <=> out.errSql = <<>>

\* with DirectWrite set, the reverse DDL went to the database and the
\* write of the compatibility DDL failed: its SQL came back with the error
C28_CompWriteFailed ==
  /\ ddlOut # <<>>
  /\ ddlIn[1].DirectWrite
  /\ Len(ddlLog) = 2
  /\ ddlLog[1].sink = "RWriteDB" /\ ddlLog[1].ok
  /\ ~ddlLog[2].ok
  /\ ddlOut[1].err # NoErr
  /\ ddlOut[1].errSql = ddlLog[2].sql

====
